---- MODULE Spec2Model ----
(***************************************************************************)
(* The credit-card fraud training pipeline of app.py: load_data,           *)
(* preprocess_data, split_data, train_model, save_model, test_model and    *)
(* their orchestration in main(), together with the files the pipeline     *)
(* reads and writes (data/credit_card_records.csv, models/model.pkl) and   *)
(* the file tests.py compares the score with (model_scores.json).          *)
(*                                                                         *)
(* Library calls are modelled by their documented behaviour at the call    *)
(* site: pandas.read_csv, pandas.to_datetime, DataFrame.drop,              *)
(* LabelEncoder.fit_transform, sklearn train_test_split (ShuffleSplit:     *)
(* n_test = ceil(test_size * n), n_train = n - n_test, ValueError when     *)
(* n_train = 0, test rows are the first n_test entries of a permutation),  *)
(* LogisticRegression.fit / score and joblib.dump.                         *)
(***************************************************************************)
EXTENDS Integers, Sequences, FiniteSets, TLC

\* Largest number of data rows of an input file.
MaxRows == 3
\* Largest number of sequential calls of main().
MaxRuns == 2

----------------------------------------------------------------------------
(* Values and tables *)

\* The header generate.py writes.
AllCols == {"Date", "Amount", "Location", "Store", "Fraudulent"}

\* The literal target column main() passes to split_data.
TargetColumn == "Fraudulent"

\* test_size=0.2, as the fraction <<numerator, denominator>>.
DefaultTestSize == <<1, 5>>

\* Rows a file can hold.  A Date is the text YYYY-MM-DD as <<Y, M, D>>; the
\* third row's date (29 February 2023) does not exist, so it cannot be parsed.
\* Location and Store texts are numbered in their lexicographic order.
SampleRows ==
    { [Date |-> <<2024, 2, 29>>, Amount |-> 10,  Location |-> 7, Store |-> 5, Fraudulent |-> FALSE],
      [Date |-> <<2023, 11, 5>>, Amount |-> 900, Location |-> 3, Store |-> 5, Fraudulent |-> TRUE],
      [Date |-> <<2023, 2, 29>>, Amount |-> 10,  Location |-> 3, Store |-> 9, Fraudulent |-> FALSE],
      [Date |-> <<2023, 11, 5>>, Amount |-> 900, Location |-> 7, Store |-> 9, Fraudulent |-> FALSE] }

\* The headers a file can have: the full one, or one column missing.
Headers == {AllCols} \cup {AllCols \ {c} : c \in {"Date", "Fraudulent", "Store"}}

SeqsUpTo(S, n) == UNION {[1..k -> S] : k \in 0..n}

\* A file's content: a header and at most MaxRows rows under it.
CsvContents ==
    { [cols |-> h, rows |-> [i \in 1..Len(rs) |-> [c \in h |-> rs[i][c]]]] :
        h \in Headers, rs \in SeqsUpTo(SampleRows, MaxRows) }

\* The result of a call: a value, or the kind of the exception raised.
Ok(v) == [ok |-> TRUE, err |-> "", val |-> v]
Raise(kind) == [ok |-> FALSE, err |-> kind, val |-> <<>>]

----------------------------------------------------------------------------
(* The pipeline's functions *)

\* load_data: pandas.read_csv.  A frame carries its columns, its rows and
\* each row's index label (0, 1, ... in file order).
load_data(file) ==
    IF file = <<>> THEN Raise("FileNotFoundError")
    ELSE Ok([cols |-> file[1].cols,
             index |-> [i \in 1..Len(file[1].rows) |-> i - 1],
             rows |-> file[1].rows])

IsLeapYear(y) == (y % 4 = 0 /\ y % 100 # 0) \/ y % 400 = 0

DaysInMonth(y, m) ==
    IF m = 2 THEN (IF IsLeapYear(y) THEN 29 ELSE 28)
    ELSE IF m \in {4, 6, 9, 11} THEN 30 ELSE 31

\* pandas.to_datetime on one value: a date of the calendar, or a failure.
Parseable(d) == d[2] \in 1..12 /\ d[3] \in 1..DaysInMonth(d[1], d[2])

\* LabelEncoder.fit_transform on one value: its rank among the column's
\* sorted distinct values.
LabelEncode(column, v) == Cardinality({u \in column : u < v})

ColumnValues(df, c) == {df.rows[i][c] : i \in 1..Len(df.rows)}

PreprocessedRow(df, r, cols) ==
    [c \in cols |->
        CASE c = "Year"     -> r.Date[1]
          [] c = "Month"    -> r.Date[2]
          [] c = "Day"      -> r.Date[3]
          [] c = "Location" -> LabelEncode(ColumnValues(df, "Location"), r.Location)
          [] c = "Store"    -> LabelEncode(ColumnValues(df, "Store"), r.Store)
          [] OTHER          -> r[c]]

\* preprocess_data with dates that cannot be parsed let through.
preprocess_data_coerce(data) ==
    IF "Date" \notin data.cols THEN Raise("KeyError")
    ELSE IF "Location" \notin data.cols THEN Raise("KeyError")
    ELSE IF "Store" \notin data.cols THEN Raise("KeyError")
    ELSE LET cols == (data.cols \ {"Date"}) \cup {"Year", "Month", "Day"}
         IN Ok([cols |-> cols,
                index |-> data.index,
                rows |-> [i \in 1..Len(data.rows) |->
                             PreprocessedRow(data, data.rows[i], cols)]])

\* preprocess_data that asks for the label column as well.
preprocess_data_needs_label(data) ==
    IF "Date" \notin data.cols \/ "Fraudulent" \notin data.cols THEN Raise("KeyError")
    ELSE IF \E i \in 1..Len(data.rows) : ~Parseable(data.rows[i].Date)
         THEN Raise("ValueError")
    ELSE IF "Location" \notin data.cols THEN Raise("KeyError")
    ELSE IF "Store" \notin data.cols THEN Raise("KeyError")
    ELSE LET cols == (data.cols \ {"Date"}) \cup {"Year", "Month", "Day"}
         IN Ok([cols |-> cols,
                index |-> data.index,
                rows |-> [i \in 1..Len(data.rows) |->
                             PreprocessedRow(data, data.rows[i], cols)]])

preprocess_data(data) ==
    IF "Date" \notin data.cols THEN Raise("KeyError")
    ELSE IF \E i \in 1..Len(data.rows) : ~Parseable(data.rows[i].Date)
         THEN Raise("ValueError")
    ELSE IF "Location" \notin data.cols THEN Raise("KeyError")
    ELSE IF "Store" \notin data.cols THEN Raise("KeyError")
    ELSE LET cols == (data.cols \ {"Date"}) \cup {"Year", "Month", "Day"}
         IN Ok([cols |-> cols,
                index |-> data.index,
                rows |-> [i \in 1..Len(data.rows) |->
                             PreprocessedRow(data, data.rows[i], cols)]])

\* ceil(a / b) for a >= 0, b > 0.
Ceil(a, b) == (a + b - 1) \div b

\* The number of evaluation rows rounded to the nearest integer instead.
NTestRounded(n, test_size) == (2 * test_size[1] * n + test_size[2]) \div (2 * test_size[2])

\* train_test_split's number of evaluation rows: ceil(test_size * n_samples).
\* The product is a double; for 0.2, 0.25 and 0.5 its ceiling is that of
\* the exact product for every n up to 2,000,000.
NTest(n, test_size) == Ceil(test_size[1] * n, test_size[2])

\* The permutations of 1..n: what rng.permutation(n) can return.
RowOrders(n) ==
    {p \in [1..n -> 1..n] : \A i, j \in 1..n : i # j => p[i] # p[j]}

\* Rows of a frame at the given positions, in that order.
TakeRows(df, cols, pos) ==
    [cols |-> cols,
     index |-> [k \in 1..Len(pos) |-> df.index[pos[k]]],
     rows |-> [k \in 1..Len(pos) |-> [c \in cols |-> df.rows[pos[k]][c]]]]

\* Labels of a frame at the given positions, in that order.
TakeLabels(df, target, pos) ==
    [index |-> [k \in 1..Len(pos) |-> df.index[pos[k]]],
     values |-> [k \in 1..Len(pos) |-> df.rows[pos[k]][target]]]

\* split_data without the check for an empty training set.
split_data_unchecked(data, target_column, test_size, perm) ==
    IF target_column \notin data.cols THEN Raise("KeyError")
    ELSE LET n == Len(data.rows)
             n_test == NTest(n, test_size)
             n_train == n - n_test
             ind_test == [k \in 1..n_test |-> perm[k]]
             ind_train == [k \in 1..n_train |-> perm[n_test + k]]
             xcols == data.cols \ {target_column}
         IN Ok([X_train |-> TakeRows(data, xcols, ind_train),
                X_test |-> TakeRows(data, xcols, ind_test),
                y_train |-> TakeLabels(data, target_column, ind_train),
                y_test |-> TakeLabels(data, target_column, ind_test)])

\* split_data with the permutation the seeded generator yields.
split_data(data, target_column, test_size, perm) ==
    IF target_column \notin data.cols THEN Raise("KeyError")
    ELSE LET n == Len(data.rows)
             n_test == NTest(n, test_size)
             n_train == n - n_test
             ind_test == [k \in 1..n_test |-> perm[k]]
             ind_train == [k \in 1..n_train |-> perm[n_test + k]]
             xcols == data.cols \ {target_column}
         IN IF n_train = 0 THEN Raise("ValueError")
            ELSE Ok([X_train |-> TakeRows(data, xcols, ind_train),
                     X_test |-> TakeRows(data, xcols, ind_test),
                     y_train |-> TakeLabels(data, target_column, ind_train),
                     y_test |-> TakeLabels(data, target_column, ind_test)])

\* The linear decision rules a fit can end with: weights on the feature
\* columns and an intercept (always negative, always positive, large Amount).
Feature == {"Amount", "Year", "Month", "Day", "Location", "Store"}

Classifiers ==
    { [w |-> [c \in Feature |-> 0], b |-> -1],
      [w |-> [c \in Feature |-> 0], b |-> 1],
      [w |-> [c \in Feature |-> IF c = "Amount" THEN 1 ELSE 0], b |-> -500] }

\* train_model: LogisticRegression().fit needs two classes among the labels.
\* id names the object the call creates.
train_model(X_train, y_train, clf, id) ==
    IF Cardinality({y_train.values[i] : i \in 1..Len(y_train.values)}) < 2
    THEN Raise("ValueError")
    ELSE Ok([id |-> id, w |-> clf.w, b |-> clf.b])

RECURSIVE Dot(_, _, _)
Dot(w, x, cols) ==
    IF cols = {} THEN 0
    ELSE LET col == CHOOSE c \in cols : TRUE
         IN w[col] * x[col] + Dot(w, x, cols \ {col})

\* model.predict on one row.
Predict(model, cols, x) == Dot(model.w, x, cols) + model.b > 0

RECURSIVE Correct(_, _, _, _)
Correct(model, X, y, k) ==
    IF k = 0 THEN 0
    ELSE (IF Predict(model, X.cols, X.rows[k]) = y.values[k] THEN 1 ELSE 0)
         + Correct(model, X, y, k - 1)

\* test_model counting the rows predicted wrongly.
test_model_error_rate(model, X_test, y_test) ==
    <<Len(X_test.rows) - Correct(model, X_test, y_test, Len(X_test.rows)),
      Len(X_test.rows)>>

\* test_model: model.score, the mean accuracy as <<correct, rows>>.
test_model(model, X_test, y_test) ==
    <<Correct(model, X_test, y_test, Len(X_test.rows)), Len(X_test.rows)>>

\* save_model creating the directory when it is missing.
save_model_makedirs(model, dirExists, old) ==
    Ok([dir |-> TRUE, file |-> <<model>>])

\* save_model refusing to replace a file that is there.
save_model_exclusive(model, dirExists, old) ==
    IF ~dirExists THEN Raise("FileNotFoundError")
    ELSE IF old # <<>> THEN Raise("FileExistsError")
    ELSE Ok([dir |-> TRUE, file |-> <<model>>])

\* save_model: joblib.dump opens the path for writing, which truncates a
\* file that is there and fails when the directory is not.  The result is
\* what is on disk afterwards.
save_model(model, dirExists, old) ==
    IF ~dirExists THEN Raise("FileNotFoundError")
    ELSE Ok([dir |-> TRUE, file |-> <<model>>])

----------------------------------------------------------------------------
(* State *)

VARIABLES
    csvFile,      \* data/credit_card_records.csv: <<>> (absent) or <<content>>
    modelsDir,    \* whether the directory models/ exists
    modelPkl,     \* models/model.pkl: <<>> (absent) or <<model>>
    modelScores,  \* model_scores.json: a list of entries with a score
    pc,           \* main(): the statement to run next, or how the call ended
    run,          \* the number of calls of main() so far
    data,         \* main()'s data
    parts,        \* main()'s X_train, X_test, y_train, y_test
    model,        \* main()'s model
    score,        \* main()'s score, <<correct, rows>>
    err,          \* the kind of the exception that ended the call
    trace,        \* the functions the current call has entered, in order
    pklAtStart,   \* models/model.pkl when the current call began
    writes,       \* the writes of models/model.pkl by the current call
    lastSave,     \* the model of the latest call that entered save_model
    sd_pc,        \* a direct call of split_data: "ready", "returned", "raised"
    sd_args,      \* its arguments
    sd_ret        \* its result

files == <<csvFile, modelsDir, modelPkl, modelScores>>
locals == <<data, parts, model, score, err>>
history == <<trace, pklAtStart, writes, lastSave>>
mainVars == <<files, pc, run, locals, history>>
sdVars == <<sd_pc, sd_args, sd_ret>>
vars == <<mainVars, sdVars>>

\* The contents model_scores.json can have: earlier scores, latest last.
ScoreFiles ==
    { <<[score |-> <<0, 1>>]>>,
      <<[score |-> <<1, 1>>], [score |-> <<1, 2>>]>>,
      <<[score |-> <<0, 1>>], [score |-> <<1, 1>>]>> }

\* The order in which main() calls the pipeline's functions.
StageOrder ==
    <<"load_data", "preprocess_data", "split_data", "train_model",
      "save_model", "test_model">>

\* main() without its call of save_model.
AfterStageSkipSave(stage) ==
    CASE stage = "load_data"       -> "preprocess_data"
      [] stage = "preprocess_data" -> "split_data"
      [] stage = "split_data"      -> "train_model"
      [] stage = "train_model"     -> "test_model"
      [] stage = "save_model"      -> "test_model"
      [] stage = "test_model"      -> "returned"

\* main() evaluating the model before it saves it.
AfterStageTestFirst(stage) ==
    CASE stage = "load_data"       -> "preprocess_data"
      [] stage = "preprocess_data" -> "split_data"
      [] stage = "split_data"      -> "train_model"
      [] stage = "train_model"     -> "test_model"
      [] stage = "test_model"      -> "save_model"
      [] stage = "save_model"      -> "returned"

\* Where main() continues after a call of the named function returned.
AfterStage(stage) ==
    CASE stage = "load_data"       -> "preprocess_data"
      [] stage = "preprocess_data" -> "split_data"
      [] stage = "split_data"      -> "train_model"
      [] stage = "train_model"     -> "save_model"
      [] stage = "save_model"      -> "test_model"
      [] stage = "test_model"      -> "returned"

Running == pc \in {StageOrder[i] : i \in 1..Len(StageOrder)}

MainInit ==
    /\ csvFile = <<>>
    /\ modelsDir = FALSE
    /\ modelPkl = <<>>
    /\ modelScores \in ScoreFiles
    /\ pc = "idle"
    /\ run = 0
    /\ data = <<>> /\ parts = <<>> /\ model = <<>> /\ score = <<>> /\ err = ""
    /\ trace = <<>> /\ pklAtStart = <<>> /\ writes = 0 /\ lastSave = <<>>

SdIdle == sd_pc = "off" /\ sd_args = <<>> /\ sd_ret = <<>>

Init == MainInit /\ SdIdle

----------------------------------------------------------------------------
(* The environment, between calls of main() *)

\* generate.py, or anyone, writes the input file: first its header ...
EnvWriteCsv ==
    /\ pc = "idle"
    /\ \E h \in Headers : csvFile' = <<[cols |-> h, rows |-> <<>>]>>
    /\ UNCHANGED <<modelsDir, modelPkl, modelScores, pc, run, locals, history, sdVars>>

\* ... then its rows, one after the other.
EnvAppendRow ==
    /\ pc = "idle"
    /\ csvFile # <<>>
    /\ Len(csvFile[1].rows) < MaxRows
    /\ \E r \in SampleRows :
         csvFile' = <<[cols |-> csvFile[1].cols,
                       rows |-> Append(csvFile[1].rows,
                                       [c \in csvFile[1].cols |-> r[c]])]>>
    /\ UNCHANGED <<modelsDir, modelPkl, modelScores, pc, run, locals, history, sdVars>>

\* The directory models/ is created.
EnvMkdir ==
    /\ pc = "idle"
    /\ ~modelsDir
    /\ modelsDir' = TRUE
    /\ UNCHANGED <<csvFile, modelPkl, modelScores, pc, run, locals, history, sdVars>>

\* The directory models/ is removed, with the file in it.
EnvRmdir ==
    /\ pc = "idle"
    /\ modelsDir
    /\ modelsDir' = FALSE
    /\ modelPkl' = <<>>
    /\ UNCHANGED <<csvFile, modelScores, pc, run, locals, history, sdVars>>

----------------------------------------------------------------------------
(* main() *)

\* A step of main(): the call of the function pc names returned r.
Step(stage, r) ==
    /\ trace' = Append(trace, stage)
    /\ IF r.ok THEN pc' = AfterStage(stage) /\ err' = err
               ELSE pc' = "raised" /\ err' = r.err

CallMain ==
    /\ pc = "idle"
    /\ run < MaxRuns
    /\ pc' = StageOrder[1]
    /\ run' = run + 1
    /\ trace' = <<>>
    /\ pklAtStart' = modelPkl
    /\ writes' = 0
    /\ UNCHANGED <<files, locals, lastSave, sdVars>>

LoadData ==
    /\ pc = "load_data"
    /\ LET r == load_data(csvFile)
       IN /\ Step("load_data", r)
          /\ data' = IF r.ok THEN <<r.val>> ELSE data
    /\ UNCHANGED <<files, run, parts, model, score, pklAtStart, writes, lastSave, sdVars>>

PreprocessData ==
    /\ pc = "preprocess_data"
    /\ LET r == preprocess_data(data[1])
       IN /\ Step("preprocess_data", r)
          /\ data' = IF r.ok THEN <<r.val>> ELSE data
    /\ UNCHANGED <<files, run, parts, model, score, pklAtStart, writes, lastSave, sdVars>>

SplitData ==
    /\ pc = "split_data"
    /\ \E perm \in RowOrders(Len(data[1].rows)) :
         LET r == split_data(data[1], TargetColumn, DefaultTestSize, perm)
         IN /\ Step("split_data", r)
            /\ parts' = IF r.ok THEN <<r.val>> ELSE parts
    /\ UNCHANGED <<files, run, data, model, score, pklAtStart, writes, lastSave, sdVars>>

TrainModel ==
    /\ pc = "train_model"
    /\ \E clf \in Classifiers :
         LET r == train_model(parts[1].X_train, parts[1].y_train, clf, run)
         IN /\ Step("train_model", r)
            /\ model' = IF r.ok THEN <<r.val>> ELSE model
    /\ UNCHANGED <<files, run, data, parts, score, pklAtStart, writes, lastSave, sdVars>>

SaveModel ==
    /\ pc = "save_model"
    /\ LET r == save_model(model[1], modelsDir, modelPkl)
       IN /\ Step("save_model", r)
          /\ modelsDir' = IF r.ok THEN r.val.dir ELSE modelsDir
          /\ modelPkl' = IF r.ok THEN r.val.file ELSE modelPkl
          /\ writes' = IF r.ok THEN writes + 1 ELSE writes
    /\ lastSave' = model
    /\ UNCHANGED <<csvFile, modelScores, run, data, parts, model, score, pklAtStart, sdVars>>

TestModel ==
    /\ pc = "test_model"
    /\ score' = test_model(model[1], parts[1].X_test, parts[1].y_test)
    /\ Step("test_model", Ok(<<>>))
    /\ UNCHANGED <<files, run, data, parts, model, pklAtStart, writes, lastSave, sdVars>>

\* The call is over (main() returned its score, or the exception left it)
\* and its local variables are gone.
Finish ==
    /\ pc \in {"returned", "raised"}
    /\ pc' = "idle"
    /\ data' = <<>> /\ parts' = <<>> /\ model' = <<>> /\ score' = <<>> /\ err' = ""
    /\ trace' = <<>> /\ pklAtStart' = <<>> /\ writes' = 0
    /\ UNCHANGED <<files, run, lastSave, sdVars>>

Next ==
    \/ EnvWriteCsv
    \/ EnvAppendRow
    \/ EnvMkdir
    \/ EnvRmdir
    \/ CallMain
    \/ LoadData
    \/ PreprocessData
    \/ SplitData
    \/ TrainModel
    \/ SaveModel
    \/ TestModel
    \/ Finish

Spec == Init /\ [][Next]_vars

----------------------------------------------------------------------------
(* split_data called on its own, with any frame, target and fraction *)

\* The held-out fractions of a direct call.
TestSizes == {<<1, 5>>, <<1, 4>>, <<1, 2>>}

\* The frames of a direct call: every table a file can hold.
Frames == {load_data(<<content>>).val : content \in CsvContents}

SdInit ==
    /\ MainInit
    /\ sd_pc = "ready"
    /\ sd_args \in [data : Frames, target_column : {TargetColumn, "Label"},
                    test_size : TestSizes]
    /\ sd_ret = <<>>

SdCall ==
    /\ sd_pc = "ready"
    /\ \E perm \in RowOrders(Len(sd_args.data.rows)) :
         LET r == split_data(sd_args.data, sd_args.target_column,
                             sd_args.test_size, perm)
         IN /\ sd_pc' = IF r.ok THEN "returned" ELSE "raised"
            /\ sd_ret' = <<r>>
    /\ UNCHANGED <<mainVars, sd_args>>

SdNext == SdCall

SplitSpec == SdInit /\ [][SdNext]_vars

----------------------------------------------------------------------------
(* main() at its last call, test_model, with any model and any partitions *)

\* The partitions of a frame into k evaluation rows and the others.
PartitionsOf(df) ==
    { [X_train |-> TakeRows(df, df.cols \ {TargetColumn},
                            [i \in 1..(Len(df.rows) - k) |-> perm[k + i]]),
       X_test |-> TakeRows(df, df.cols \ {TargetColumn}, [i \in 1..k |-> perm[i]]),
       y_train |-> TakeLabels(df, TargetColumn,
                              [i \in 1..(Len(df.rows) - k) |-> perm[k + i]]),
       y_test |-> TakeLabels(df, TargetColumn, [i \in 1..k |-> perm[i]])] :
        k \in 1..(Len(df.rows) - 1), perm \in RowOrders(Len(df.rows)) }

\* The feature tables preprocess_data returns for full, parseable files.
FeatureTables ==
    { preprocess_data(f).val :
        f \in {g \in Frames : g.cols = AllCols /\ preprocess_data(g).ok} }

EvInit ==
    /\ SdIdle
    /\ csvFile = <<>>
    /\ modelsDir = TRUE
    /\ modelScores \in ScoreFiles
    /\ pc = "test_model"
    /\ run = 1
    /\ \E df \in FeatureTables : data = <<df>> /\ parts \in {<<p>> : p \in PartitionsOf(df)}
    /\ \E clf \in Classifiers : model = <<[id |-> 1, w |-> clf.w, b |-> clf.b]>>
    /\ modelPkl = model
    /\ score = <<>> /\ err = ""
    /\ trace = SubSeq(StageOrder, 1, 5) /\ pklAtStart = <<>> /\ writes = 1
    /\ lastSave = model

EvNext == TestModel \/ Finish

EvalSpec == EvInit /\ [][EvNext]_vars

----------------------------------------------------------------------------
(* Properties *)

\* Position of a function in main()'s order, 0 when it is not one.
StageIndex(stage) ==
    IF \E i \in 1..Len(StageOrder) : StageOrder[i] = stage
    THEN CHOOSE i \in 1..Len(StageOrder) : StageOrder[i] = stage
    ELSE 0

Entered(stage) == \E i \in 1..Len(trace) : trace[i] = stage

\* a/b >= c/d for positive denominators.
RatGeq(x, y) == x[1] * y[2] >= y[1] * x[2]

\* model_scores[-1]['score']
LatestScore == modelScores[Len(modelScores)].score

\* C1: whenever a call of main() returns normally, models/model.pkl exists
\* and holds the model that very call trained and wrote.
Thm_C1 ==
    pc = "returned" =>
        /\ modelPkl # <<>>
        /\ modelPkl = model
        /\ modelPkl[1].id = run
        /\ writes = 1

\* A second call returns, having replaced the file the first call left.
Wit_C1 ==
    /\ pc = "returned"
    /\ run = 2
    /\ pklAtStart # <<>>
    /\ pklAtStart # modelPkl

\* C2: the value main() returns is the accuracy: the number of evaluation
\* rows whose predicted label equals the true label over the number of
\* evaluation rows, a value between 0 and 1.
Thm_C2 ==
    pc = "returned" =>
        LET X == parts[1].X_test
            y == parts[1].y_test
            n == Len(X.rows)
            hits == {k \in 1..n : Predict(model[1], X.cols, X.rows[k]) = y.values[k]}
        IN /\ n >= 1
           /\ score = <<Cardinality(hits), n>>
           /\ 0 <= score[1] /\ score[1] <= score[2]

\* A returned accuracy strictly between 0 and 1.
Wit_C2 == pc = "returned" /\ 0 < score[1] /\ score[1] < score[2]

\* The input file has a row whose Date cannot be parsed.
HasBadDate ==
    /\ csvFile # <<>>
    /\ "Date" \in csvFile[1].cols
    /\ \E i \in 1..Len(csvFile[1].rows) : ~Parseable(csvFile[1].rows[i].Date)

\* C3: with an unparseable Date in any row, the call fails in
\* preprocess_data, train_model and save_model are never entered, and the
\* call writes no model file.
Thm_C3 ==
    (pc # "idle" /\ HasBadDate) =>
        /\ \/ pc \in {"load_data", "preprocess_data"}
           \/ pc = "raised" /\ trace = <<"load_data", "preprocess_data">>
        /\ ~Entered("train_model") /\ ~Entered("save_model")
        /\ writes = 0
        /\ modelPkl = pklAtStart

\* Such a call has failed, and an earlier call's model file is still there.
Wit_C3 ==
    /\ HasBadDate
    /\ pc = "raised"
    /\ trace = <<"load_data", "preprocess_data">>
    /\ Len(csvFile[1].rows) >= 2
    /\ Parseable(csvFile[1].rows[1].Date)
    /\ pklAtStart # <<>>

\* The input file lacks the target column and is valid otherwise.
LacksTarget ==
    /\ csvFile # <<>>
    /\ csvFile[1].cols = AllCols \ {TargetColumn}
    /\ \A i \in 1..Len(csvFile[1].rows) : Parseable(csvFile[1].rows[i].Date)

\* C4: without the target column the call passes load_data and
\* preprocess_data, fails in split_data, and writes no model file.
Thm_C4 ==
    (pc # "idle" /\ LacksTarget) =>
        /\ \/ pc \in {"load_data", "preprocess_data", "split_data"}
           \/ pc = "raised" /\ trace = <<"load_data", "preprocess_data", "split_data">>
        /\ writes = 0
        /\ modelPkl = pklAtStart

\* Such a call has failed in split_data, on a file with rows.
Wit_C4 ==
    /\ LacksTarget
    /\ Len(csvFile[1].rows) >= 2
    /\ pc = "raised"
    /\ trace = <<"load_data", "preprocess_data", "split_data">>

IOErrorKinds == {"FileNotFoundError", "PermissionError", "IsADirectoryError"}

\* C7: save_model never creates the directory.  Without it the call fails
\* there with an IOError kind, no directory and no file appear, and main()
\* neither evaluates nor returns a score; with it, the file holds the new
\* model whatever it held before.
Thm_C7 ==
    /\ [](/\ (Entered("save_model") /\ pc = "raised") =>
                 /\ ~modelsDir
                 /\ modelPkl = <<>>
                 /\ err \in IOErrorKinds
                 /\ score = <<>>
                 /\ ~Entered("test_model")
          /\ (Entered("save_model") /\ pc # "raised") =>
                 /\ modelsDir
                 /\ modelPkl = model)
    /\ [][pc # "idle" => modelsDir' = modelsDir]_vars

\* The call failed in save_model for want of the directory.
Wit_C7 == Entered("save_model") /\ pc = "raised" /\ ~modelsDir

\* C8 (as stated): the accuracy main() returns is never below the latest
\* score recorded in model_scores.json.
CE_C8 == pc = "returned" => RatGeq(score, LatestScore)

\* C9: a call enters load_data, preprocess_data, split_data, train_model,
\* save_model, test_model in this order, each at most once and only after
\* the one before returned; after a failure it enters nothing more.
Thm_C9 ==
    /\ [](/\ Len(trace) <= Len(StageOrder)
          /\ \A i \in 1..Len(trace) : trace[i] = StageOrder[i]
          /\ Running => Len(trace) = StageIndex(pc) - 1
          /\ pc = "returned" => trace = StageOrder)
    /\ [][/\ pc = "raised" => pc' \in {"raised", "idle"}
          /\ (trace' # trace /\ trace' # <<>>) =>
                 /\ Running
                 /\ trace' = Append(trace, pc)
          /\ (Running /\ pc' # pc) =>
                 \/ pc' = "raised"
                 \/ StageIndex(pc) < Len(StageOrder) /\ pc' = StageOrder[StageIndex(pc) + 1]
                 \/ StageIndex(pc) = Len(StageOrder) /\ pc' = "returned"]_vars

\* A call that failed in train_model: save_model and test_model never ran.
Wit_C9 ==
    /\ pc = "raised"
    /\ trace = SubSeq(StageOrder, 1, 4)
    /\ score = <<>>

\* C10: a call writes the model file at most once and only in save_model; a
\* call that fails before save_model leaves the file as it found it; after a
\* call the file, if there, holds the model of the latest call that entered
\* save_model and nothing of an earlier one.
Thm_C10 ==
    /\ [](/\ writes <= 1
          /\ (pc # "idle" /\ ~Entered("save_model")) => modelPkl = pklAtStart
          /\ (pc \in {"returned", "raised"} /\ modelPkl # <<>>) =>
                 /\ Len(modelPkl) = 1
                 /\ modelPkl = lastSave)
    /\ [][(pc # "idle" /\ modelPkl' # modelPkl) =>
              /\ pc = "save_model"
              /\ writes' = writes + 1]_vars

\* A second call failed before save_model and the first call's file stayed.
Wit_C10 ==
    /\ run = 2
    /\ pc = "raised"
    /\ ~Entered("save_model")
    /\ modelPkl # <<>>
    /\ modelPkl[1].id = 1

(* split_data called on its own *)

SdTargetAbsent == sd_args.target_column \notin sd_args.data.cols

SdRows == Len(sd_args.data.rows)

\* round(a / b) as Python rounds: to the nearest integer, halves to even.
RoundHalfEven(a, b) ==
    LET q == a \div b
        r == a % b
    IN IF 2 * r < b THEN q
       ELSE IF 2 * r > b THEN q + 1
       ELSE IF q % 2 = 0 THEN q ELSE q + 1

SetOf(seq) == {seq[i] : i \in 1..Len(seq)}

\* The four partitions hold every row of the frame exactly once, and each
\* row's features stay with its own label.
IsPartition(df, target, v) ==
    LET tr == v.X_train.index
        te == v.X_test.index
        rowOf(label) == df.rows[label + 1]
        features(label) == [c \in df.cols \ {target} |-> rowOf(label)[c]]
    IN /\ Len(tr) + Len(te) = Len(df.rows)
       /\ SetOf(tr) \cup SetOf(te) = SetOf(df.index)
       /\ Cardinality(SetOf(tr) \cup SetOf(te)) = Len(df.rows)
       /\ v.y_train.index = tr
       /\ v.y_test.index = te
       /\ Len(v.X_train.rows) = Len(tr) /\ Len(v.y_train.values) = Len(tr)
       /\ Len(v.X_test.rows) = Len(te) /\ Len(v.y_test.values) = Len(te)
       /\ \A k \in 1..Len(tr) :
            /\ v.X_train.rows[k] = features(tr[k])
            /\ v.y_train.values[k] = rowOf(tr[k])[target]
       /\ \A k \in 1..Len(te) :
            /\ v.X_test.rows[k] = features(te[k])
            /\ v.y_test.values[k] = rowOf(te[k])[target]

\* C5 (as stated): split_data fails with the ValueError kind when the target
\* column is absent and when the table has no rows.
CE_C5 ==
    (sd_pc # "ready" /\ (SdTargetAbsent \/ SdRows = 0)) =>
        /\ sd_pc = "raised"
        /\ sd_ret[1].err = "ValueError"

\* C5 (amended): split_data fails with the KeyError kind when the target
\* column is absent, and with the ValueError kind when the column is there
\* and the table has no rows; in neither case does it return partitions.
Thm_C5 ==
    sd_pc # "ready" =>
        /\ SdTargetAbsent =>
               /\ sd_pc = "raised" /\ ~sd_ret[1].ok
               /\ sd_ret[1].err = "KeyError"
        /\ (~SdTargetAbsent /\ SdRows = 0) =>
               /\ sd_pc = "raised" /\ ~sd_ret[1].ok
               /\ sd_ret[1].err = "ValueError"

\* A call on a table with rows and no target column has failed.
Wit_C5 ==
    /\ sd_pc = "raised"
    /\ SdTargetAbsent
    /\ SdRows >= 1
    /\ sd_ret[1].err = "KeyError"

\* C6 (as stated): for every non-empty table the partitions hold each row
\* exactly once, features with their label, and the evaluation partition has
\* round(f * n) rows.
CE_C6 ==
    (sd_pc # "ready" /\ ~SdTargetAbsent /\ SdRows >= 1) =>
        /\ sd_pc = "returned"
        /\ IsPartition(sd_args.data, sd_args.target_column, sd_ret[1].val)
        /\ Len(sd_ret[1].val.X_test.rows)
             = RoundHalfEven(sd_args.test_size[1] * SdRows, sd_args.test_size[2])

\* C6 (amended): for every table with n rows and fraction f such that
\* ceil(f * n) < n, the partitions hold each row exactly once, features with
\* their label, and the evaluation partition has ceil(f * n) rows: the least
\* m with m >= f * n.
Thm_C6 ==
    LET p == sd_args.test_size[1]
        q == sd_args.test_size[2]
    IN (/\ sd_pc # "ready"
        /\ ~SdTargetAbsent
        /\ \E m \in 0..(SdRows - 1) : m * q >= p * SdRows) =>
           /\ sd_pc = "returned"
           /\ IsPartition(sd_args.data, sd_args.target_column, sd_ret[1].val)
           /\ LET m == Len(sd_ret[1].val.X_test.rows)
              IN m * q >= p * SdRows /\ (m - 1) * q < p * SdRows

\* Two rows at the default fraction: one evaluation row, where round(0.4)
\* is 0.
Wit_C6 ==
    /\ sd_pc = "returned"
    /\ SdRows = 2
    /\ sd_args.test_size = DefaultTestSize
    /\ Len(sd_ret[1].val.X_test.rows) = 1
    /\ Len(sd_ret[1].val.X_train.rows) = 1

====
